---- MODULE Spec2Model ----
(***************************************************************************)
(* Cache store (source/cache.py, class F1Cache) and cache-aware fetch      *)
(* pipeline (source/api.py, fetch_json) of pitwall-cli.                    *)
(*                                                                         *)
(* Strings that the code takes apart (URLs) are sequences of tokens: the   *)
(* separators ":", "/", "?" are tokens of their own and every other token  *)
(* is a run of characters that contains no separator.  Time is counted in  *)
(* ticks of 30 minutes, the granularity of the expiration policy.          *)
(***************************************************************************)
EXTENDS Integers, Sequences, FiniteSets, TLC

\* ------------------------------------------------------------------ bounds
\* The last instant at which a call is made.
MaxTime == 2
\* The number of files that are damaged when the program starts.
MaxDamaged == 1
\* The last instant of SpecTtl, past the longest expiration it stores under.
MaxLongTime == 13
\* The number of records handed to export_to_csv.
MaxRecords == 2

\* --------------------------------------------------------------- constants
\* Python's None, as a return value and as the JSON payload null.
None == "None"
\* The value of clear's parameter when no endpoint is given.
NoEndpoint == <<"<none>">>

\* ------------------------------------------------------------ request URLs
HTTPS == <<"https", ":", "/", "/">>
HTTP == <<"http", ":", "/", "/">>

Host == "api.openf1.org"
Query == "session_key=9636&driver_number=44"
UrlLaps == HTTPS \o <<Host, "/", "v1", "/", "laps", "?", Query>>
UrlLapsHttp == HTTP \o <<Host, "/", "v1", "/", "laps", "?", Query>>
UrlPosition == HTTPS \o <<Host, "/", "v1", "/", "position", "?", Query>>
\* team_radio has no entry in expiration_policies.
UrlTeamRadio == HTTPS \o <<Host, "/", "v1", "/", "team_radio", "?", Query>>

AllUrls == {UrlLaps, UrlLapsHttp, UrlPosition, UrlTeamRadio}

\* Other forms an identity can take: without its scheme, with a URL inside
\* its query, and with a single path segment.
UrlLapsBare == <<Host, "/", "v1", "/", "laps", "?", Query>>
UrlNested == HTTPS \o <<Host, "/", "v1", "/", "laps", "?", "u=">> \o HTTP \o <<"y">>
UrlNestedPlain == HTTPS \o <<Host, "/", "v1", "/", "laps", "?", "u=", "y">>
UrlShort == HTTPS \o <<"example.com", "/", "data">>
\* The URLs requested in SpecUrl.
FormUrls == {UrlLaps, UrlLapsHttp, UrlLapsBare, UrlNested, UrlNestedPlain, UrlShort}

\* "&".join([f"{k}={v}" for k, v in params.items()]), params being the
\* sequence of the dictionary's pairs in insertion order.
RECURSIVE JoinParams(_)
JoinParams(params) ==
  IF Len(params) = 1 THEN params[1][1] \o "=" \o params[1][2]
  ELSE params[1][1] \o "=" \o params[1][2] \o "&" \o JoinParams(Tail(params))

\* A URL builder that appends "?" whatever params holds.
export_url_always_query(endpoint, params) ==
  HTTPS \o <<Host, "/", "v1", "/", endpoint, "?">>
    \o (IF params # <<>> THEN <<JoinParams(params)>> ELSE <<>>)

\* The URL export_data builds.
export_url(endpoint, params) ==
  HTTPS \o <<Host, "/", "v1", "/", endpoint>>
    \o (IF params # <<>> THEN <<"?", JoinParams(params)>> ELSE <<>>)

\* The parameter dictionaries of the exports of the model: none, the two
\* of the laps view, and the same two inserted the other way round.
ExportParams ==
  {<<>>,
   << <<"session_key", "9636">>, <<"driver_number", "44">> >>,
   << <<"driver_number", "44">>, <<"session_key", "9636">> >>}
ExportUrls == {export_url("laps", params) : params \in ExportParams}

\* The numbers typed at the prompt: a year, the key of a meeting of that
\* year, the key of a session of that meeting and a driver number.
Digits == {"2024", "1219", "9636", "44"}
\* len(command) == 4
FourDigits == {"2024", "1219", "9636"}
\* int(command), and the f-string of an int.
int(command) ==
  CASE command = "2024" -> 2024
    [] command = "1219" -> 1219
    [] command = "9636" -> 9636
    [] command = "44" -> 44
str(n) == CHOOSE command \in Digits : int(command) = n
\* datetime.now().year
ThisYear == 2026

\* The URLs the views request.
UrlMeetings(year) ==
  HTTPS \o <<Host, "/", "v1", "/", "meetings", "?", "year=" \o str(year)>>
UrlMeetingSessions(meeting_key) ==
  HTTPS \o <<Host, "/", "v1", "/", "sessions", "?", "meeting_key=" \o meeting_key>>
UrlSession(session_key) ==
  HTTPS \o <<Host, "/", "v1", "/", "sessions", "?", "session_key=" \o session_key>>
UrlSessionResult(session_key) ==
  HTTPS \o <<Host, "/", "v1", "/", "session_result", "?", "session_key=" \o session_key>>
UrlSessionDrivers(session_key) ==
  HTTPS \o <<Host, "/", "v1", "/", "drivers", "?", "session_key=" \o session_key>>
UrlDriver(session_key, driver_number) ==
  HTTPS \o <<Host, "/", "v1", "/", "drivers", "?",
             "session_key=" \o session_key \o "&driver_number=" \o driver_number>>
UrlDriverLaps(session_key, driver_number) ==
  HTTPS \o <<Host, "/", "v1", "/", "laps", "?",
             "session_key=" \o session_key \o "&driver_number=" \o driver_number>>

\* What the upstream lists: the meeting of 2024 and its session, by the
\* str() of the meeting_key and session_key of the records.
Listing(url) ==
  CASE url = UrlMeetings(2024) -> <<"1219">>
    [] url = UrlMeetingSessions("1219") -> <<"9636">>
    [] OTHER -> <<>>

\* The parameters export adds from the context, in the order it adds them.
ContextParams ==
  {<<>>,
   << <<"year", "2024">> >>,
   << <<"session_key", "9636">>, <<"year", "2024">> >>}
\* The driver numbers typed at the prompt of a session.
DriverNumbers == {"44"}
ViewUrls ==
  {UrlMeetings(2024), UrlMeetingSessions("1219"), UrlSession("9636"),
   UrlSessionResult("9636"), UrlSessionDrivers("9636")}
  \cup {UrlDriver("9636", d) : d \in DriverNumbers}
  \cup {UrlDriverLaps("9636", d) : d \in DriverNumbers}
  \cup {export_url("laps", params) : params \in ContextParams}

KnownUrls == AllUrls \cup FormUrls \cup ExportUrls \cup ViewUrls
\* The URLs requested in Spec.
Urls == {UrlLaps, UrlPosition}

\* JSON bodies the upstream can return: an object, the empty array, null.
Payloads == {"object", "empty_array", None}

\* ------------------------------------------------------- string primitives
\* str.replace(pat, ""): every non-overlapping occurrence, left to right.
RECURSIVE Replace(_, _)
Replace(s, pat) ==
  IF Len(s) < Len(pat) THEN s
  ELSE IF SubSeq(s, 1, Len(pat)) = pat
       THEN Replace(SubSeq(s, Len(pat) + 1, Len(s)), pat)
       ELSE <<Head(s)>> \o Replace(Tail(s), pat)

\* str.split(sep): the list of parts, empty parts included.
RECURSIVE Split(_, _)
Split(s, sep) ==
  IF s = <<>> THEN << <<>> >>
  ELSE IF Head(s) = sep
       THEN << <<>> >> \o Split(Tail(s), sep)
       ELSE LET r == Split(Tail(s), sep)
            IN  << <<Head(s)>> \o Head(r) >> \o Tail(r)

\* hashlib.md5(...).hexdigest(), taken as injective: the digest stands for
\* the string it was computed from.
md5(s) == s

\* ------------------------------------------------------------ F1Cache
\* expiration_policies, in ticks of half an hour (0.5 hours is one tick).
expiration_policies ==
  [sessions |-> 48, meetings |-> 48, drivers |-> 24, laps |-> 2, stints |-> 2,
   position |-> 1, pit |-> 2, results |-> 4, default |-> 12]

\* A key derivation that strips "https://" only.
get_cache_key_https_only(url) ==
  LET clean_url == Replace(url, HTTPS)
  IN  md5(clean_url)

get_cache_key(url) ==
  LET clean_url == Replace(Replace(url, HTTPS), HTTP)
  IN  md5(clean_url)

\* A category derivation that keeps the query string.
get_endpoint_type_with_query(url) ==
  LET parts == Split(url, "/")
  IN  IF Len(parts) >= 5
      THEN parts[5]
      ELSE <<"default">>

get_endpoint_type(url) ==
  LET parts == Split(url, "/")
  IN  IF Len(parts) >= 5
      THEN Split(parts[5], "?")[1]
      ELSE <<"default">>

\* expiration_policies.get(endpoint_type, expiration_policies["default"]),
\* as a number of ticks.
ExpirationTicks(endpoint_type) ==
  IF Len(endpoint_type) = 1 /\ endpoint_type[1] \in DOMAIN expiration_policies
  THEN expiration_policies[endpoint_type[1]]
  ELSE expiration_policies["default"]

Keys == {get_cache_key(u) : u \in KnownUrls}

\* get_cache_key, get_endpoint_type and the policy lookup over the URLs of
\* the model, computed once.
CacheKeyTable == [u \in KnownUrls |-> get_cache_key(u)]
EndpointTable == [u \in KnownUrls |-> get_endpoint_type(u)]
ExpirationTable == [u \in KnownUrls |-> ExpirationTicks(get_endpoint_type(u))]
CacheKey(url) == CacheKeyTable[url]
EndpointType(url) == EndpointTable[url]
Expiration(url) == ExpirationTable[url]

\* One file of the cache directory, <key>.json, by what reading it gives:
\*   none         no such file
\*   ok           the record written by set
\*   unreadable   open() fails (OSError)
\*   badjson      json.load fails (JSONDecodeError), e.g. a truncated file
\*   notobject    valid JSON that is not an object
\*   nocachedat   an object without "cached_at"
\*   badcachedat  an object whose "cached_at" is not an ISO-8601 timestamp
\*   nodata       an object with a valid "cached_at" and without "data"
NoFile == [kind |-> "none", url |-> <<>>, endpoint |-> <<>>, cached_at |-> 0, data |-> None]
Truncated == [kind |-> "badjson", url |-> <<>>, endpoint |-> <<>>, cached_at |-> 0, data |-> None]

ObjectKinds == {"ok", "nocachedat", "badcachedat", "nodata"}
LoadableKinds == ObjectKinds \cup {"notobject"}

\* The records an earlier run or an outside writer can have left for url.
Damaged(url) ==
  {[kind |-> k, url |-> <<>>, endpoint |-> <<>>, cached_at |-> 0, data |-> None] :
      k \in {"unreadable", "badjson", "notobject"}}
  \cup
  {[kind |-> k, url |-> url, endpoint |-> EndpointType(url), cached_at |-> 0,
    data |-> None] : k \in {"nocachedat", "badcachedat", "nodata"}}

\* datetime.now() <= expiry_time
Fresh_inclusive(t, expiry_time) == t <= expiry_time
\* datetime.now() < expiry_time
Fresh(t, expiry_time) == t < expiry_time

\* get that unlinks the entry it finds expired.
F1Cache_get_unlinking_expired(dir, url, t) ==
  LET cache_key == CacheKey(url)
      cache_data == dir[cache_key]
      expiry_time == cache_data.cached_at + Expiration(url)
      unlinked == [dir EXCEPT ![cache_key] = NoFile]
      Result(v, e, d) == [ret |-> v, raised |-> e, dir |-> d]
  IN  CASE cache_data.kind = "none" -> Result(None, "", dir)
        [] cache_data.kind = "unreadable" -> Result(None, "OSError", dir)
        [] cache_data.kind = "badjson" -> Result(None, "", unlinked)
        [] cache_data.kind = "notobject" -> Result(None, "TypeError", dir)
        [] cache_data.kind = "nocachedat" -> Result(None, "", unlinked)
        [] cache_data.kind = "badcachedat" -> Result(None, "ValueError", dir)
        [] cache_data.kind = "nodata" -> Result(None, "", unlinked)
        [] cache_data.kind = "ok" ->
             IF Fresh(t, expiry_time) THEN Result(cache_data.data, "", dir)
             ELSE Result(None, "", unlinked)

\* get: the value returned, the exception raised ("" for none) and the
\* directory afterwards.
F1Cache_get(dir, url, t) ==
  LET cache_key == CacheKey(url)
      cache_data == dir[cache_key]
      expiry_time == cache_data.cached_at + Expiration(url)
      unlinked == [dir EXCEPT ![cache_key] = NoFile]
      Result(v, e, d) == [ret |-> v, raised |-> e, dir |-> d]
  IN  CASE cache_data.kind = "none" -> Result(None, "", dir)
        [] cache_data.kind = "unreadable" -> Result(None, "OSError", dir)
        [] cache_data.kind = "badjson" -> Result(None, "", unlinked)
        [] cache_data.kind = "notobject" -> Result(None, "TypeError", dir)
        [] cache_data.kind = "nocachedat" -> Result(None, "", unlinked)
        [] cache_data.kind = "badcachedat" -> Result(None, "ValueError", dir)
        [] cache_data.kind = "nodata" ->
             IF Fresh(t, expiry_time) THEN Result(None, "", unlinked)
             ELSE Result(None, "", dir)
        [] cache_data.kind = "ok" ->
             IF Fresh(t, expiry_time) THEN Result(cache_data.data, "", dir)
             ELSE Result(None, "", dir)

\* A payload json.dump cannot serialise (only a direct caller of set can
\* pass one; response.json() never produces it).
Unserialisable == "unserialisable"
\* What the file system does with set's write.
IoOutcomes == {"ok", "open_fails", "write_fails"}

\* set that writes nothing.
F1Cache_set_nothing(dir, url, data, t, io) == [raised |-> "", dir |-> dir]

\* set that lets the failure of the write out.
F1Cache_set_raising(dir, url, data, t, io) ==
  LET cache_key == CacheKey(url)
      cache_data == [kind |-> "ok", url |-> url, endpoint |-> EndpointType(url),
                     cached_at |-> t, data |-> data]
  IN  IF io = "open_fails" THEN [raised |-> "OSError", dir |-> dir]
      ELSE IF io = "write_fails"
           THEN [raised |-> "OSError", dir |-> [dir EXCEPT ![cache_key] = Truncated]]
           ELSE IF data = Unserialisable
           THEN [raised |-> "TypeError", dir |-> [dir EXCEPT ![cache_key] = Truncated]]
           ELSE [raised |-> "", dir |-> [dir EXCEPT ![cache_key] = cache_data]]

\* set that writes its record to every file of the directory.
F1Cache_set_every_file(dir, url, data, t, io) ==
  LET cache_data == [kind |-> "ok", url |-> url, endpoint |-> EndpointType(url),
                     cached_at |-> t, data |-> data]
  IN  [raised |-> "", dir |-> [k \in DOMAIN dir |-> cache_data]]

\* set that leaves an entry that is already there as it is.
F1Cache_set_keeping_existing(dir, url, data, t, io) ==
  LET cache_key == CacheKey(url)
      cache_data == [kind |-> "ok", url |-> url, endpoint |-> EndpointType(url),
                     cached_at |-> t, data |-> data]
  IN  IF dir[cache_key].kind = "ok" THEN [raised |-> "", dir |-> dir]
      ELSE [raised |-> "", dir |-> [dir EXCEPT ![cache_key] = cache_data]]

\* set: the exception raised ("" for none) and the directory afterwards.
\* open(.., "w") empties the file before json.dump writes it piece by piece,
\* so a write that stops half way leaves a truncated file.
F1Cache_set(dir, url, data, t, io) ==
  LET cache_key == CacheKey(url)
      cache_data == [kind |-> "ok", url |-> url, endpoint |-> EndpointType(url),
                     cached_at |-> t, data |-> data]
  IN  IF io = "open_fails" THEN [raised |-> "", dir |-> dir]
      ELSE IF io = "write_fails" \/ data = Unserialisable
           THEN [raised |-> "", dir |-> [dir EXCEPT ![cache_key] = Truncated]]
           ELSE [raised |-> "", dir |-> [dir EXCEPT ![cache_key] = cache_data]]

\* A scan that skips the files it cannot parse.
ClearUnlinks_skipping(rec, endpoint) ==
  /\ rec.kind \in ObjectKinds
  /\ \/ endpoint = NoEndpoint
     \/ rec.endpoint = endpoint
\* A scan that counts every file it unlinks.
ClearCounts_every_unlink(rec, endpoint) ==
  /\ rec.kind # "none"
  /\ \/ rec.kind \notin ObjectKinds
     \/ endpoint = NoEndpoint
     \/ rec.endpoint = endpoint

\* clear: whether the scan unlinks a file, and whether it counts it.
ClearUnlinks(rec, endpoint) ==
  /\ rec.kind # "none"
  /\ \/ rec.kind \notin ObjectKinds
     \/ endpoint = NoEndpoint
     \/ rec.endpoint = endpoint
ClearCounts(rec, endpoint) ==
  /\ rec.kind \in LoadableKinds
  /\ \/ endpoint = NoEndpoint
     \/ rec.kind \in ObjectKinds /\ rec.endpoint = endpoint

F1Cache_clear(dir, endpoint) ==
  [ret |-> None,
   cleared |-> Cardinality({k \in DOMAIN dir : ClearCounts(dir[k], endpoint)}),
   dir |-> [k \in DOMAIN dir |-> IF ClearUnlinks(dir[k], endpoint) THEN NoFile ELSE dir[k]]]

\* st_size of a file: positive for every file, and growing with what the
\* record holds.
FileSize(rec) ==
  IF rec.kind = "none" THEN 0 ELSE 1 + Len(rec.url) + Len(rec.endpoint)

RECURSIVE SumSize(_, _)
SumSize(dir, ks) ==
  IF ks = {} THEN 0
  ELSE LET k == CHOOSE x \in ks : TRUE
       IN  FileSize(dir[k]) + SumSize(dir, ks \ {k})

\* stats: the dictionary returned (None of oldest/newest is -1).
F1Cache_stats(dir) ==
  LET loaded == {k \in DOMAIN dir : dir[k].kind \in LoadableKinds}
      objects == {k \in DOMAIN dir : dir[k].kind \in ObjectKinds}
      timed == {k \in DOMAIN dir : dir[k].kind \in {"ok", "nodata"}}
      times == {dir[k].cached_at : k \in timed}
      endpoints == {dir[k].endpoint : k \in objects}
  IN  [total |-> Cardinality(loaded),
       by_endpoint |-> [e \in endpoints |->
                          Cardinality({k \in objects : dir[k].endpoint = e})],
       oldest |-> IF times = {} THEN -1 ELSE CHOOSE t \in times : \A u \in times : t <= u,
       newest |-> IF times = {} THEN -1 ELSE CHOOSE t \in times : \A u \in times : t >= u,
       total_size |-> SumSize(dir, loaded)]

NoStats == [total |-> 0, by_endpoint |-> [e \in {} |-> 0], oldest |-> -1, newest |-> -1, total_size |-> 0]

\* ------------------------------------------------------------ fetch_json
\* What the upstream does with the attempts of one call: `fails` attempts in
\* a row end in the transient `failure`, the attempt after them (if the
\* transport makes it) ends in `final`.
TransientFailures == {"429", "503", "connect_timeout", "read_timeout", "connection_error"}
Finals == {"200"} \cup {"bad_body", "404"}
retry_total == 3
status_forcelist == {"429", "500", "502", "503", "504"}

Servers ==
  {s \in [fails : 0..(retry_total + 1), failure : TransientFailures, final : Finals,
          body : Payloads] :
      /\ s.final # "200" => s.body = None
      /\ s.fails = 0 => s.failure = "503"}
\* The upstreams of Spec: one that answers the first attempt, and one that
\* fails every attempt.
Upstreams ==
  {s \in Servers :
      /\ s.fails \in {0, retry_total + 1}
      /\ s.fails > 0 => s.final = "404" /\ s.failure \in {"429", "connect_timeout", "connection_error"}}

\* session.mount("https://", adapter): the retrying adapter serves the URLs
\* that start with https://, every other URL gets the session's default
\* adapter, which does not retry.
Mounted(url) == Len(url) >= Len(HTTPS) /\ SubSeq(url, 1, Len(HTTPS)) = HTTPS
\* A transport that retries as long as the upstream fails.
RetryBudget_unbounded(url) == IF Mounted(url) THEN retry_total + 2 ELSE 0
RetryBudget(url) == IF Mounted(url) THEN retry_total ELSE 0

\* The exception (or "" for success) that ends session.get + raise_for_status
\* + response.json(), and the number of attempts made.
Transport(url, server) ==
  LET budget == RetryBudget(url)
      exhausted == server.fails > budget
      attempts == IF exhausted THEN budget + 1 ELSE server.fails + 1
      \* a status in status_forcelist is retried by the mounted adapter only;
      \* the default adapter hands the response back
      statusError(code) == IF code = "429" THEN "HTTPError429" ELSE "HTTPError"
      onExhausted ==
        CASE server.failure \in status_forcelist ->
               IF Mounted(url) THEN "RetryError" ELSE statusError(server.failure)
          [] server.failure = "connect_timeout" -> "ConnectTimeout"
          [] server.failure = "read_timeout" ->
               IF Mounted(url) THEN "ConnectionError" ELSE "ReadTimeout"
          [] server.failure = "connection_error" -> "ConnectionError"
      onFinal ==
        CASE server.final = "200" -> ""
          [] server.final = "bad_body" -> "JSONDecodeError"
          [] server.final = "404" -> "HTTPError"
  IN  [attempts |-> attempts,
       error |-> IF exhausted THEN onExhausted ELSE onFinal,
       data |-> IF ~exhausted /\ server.final = "200" THEN server.body ELSE None]

\* The except clauses of fetch_json: the message printed for an exception.
Report(error) ==
  CASE error = "" -> ""
    [] error = "HTTPError429" -> "rate_limit"
    [] error = "HTTPError" -> "http_error"
    [] error \in {"ConnectTimeout", "ReadTimeout"} -> "timeout"
    [] OTHER -> "network_error"

\* fetch_json that looks in the cache whatever force_refresh says.
fetch_json_always_cached(dir, url, force_refresh, t, server, io) ==
  LET cached == F1Cache_get(dir, url, t)
      net == Transport(url, server)
      stored == F1Cache_set(cached.dir, url, net.data, t, io)
      Out(v, e, d, n, err, got, w) ==
        [ret |-> v, raised |-> e, dir |-> d, looked |-> TRUE, attempts |-> n,
         report |-> Report(err), error |-> err, got |-> got, persist |-> w]
  IN  IF cached.raised # ""
      THEN Out(None, cached.raised, cached.dir, 0, "", None, "")
      ELSE IF cached.ret # None
      THEN Out(cached.ret, "", cached.dir, 0, "", None, "")
      ELSE IF net.error # ""
      THEN Out(None, "", cached.dir, net.attempts, net.error, None, "")
      ELSE Out(net.data, "", stored.dir, net.attempts, "", net.data, io)

\* fetch_json that drops the entry of a URL whose request failed.
fetch_json_invalidating(dir, url, force_refresh, t, server, io) ==
  LET cached == F1Cache_get(dir, url, t)
      looked == ~force_refresh
      dir1 == IF looked THEN cached.dir ELSE dir
      net == Transport(url, server)
      stored == F1Cache_set(dir1, url, net.data, t, io)
      Out(v, e, d, n, err, got, w) ==
        [ret |-> v, raised |-> e, dir |-> d, looked |-> looked, attempts |-> n,
         report |-> Report(err), error |-> err, got |-> got, persist |-> w]
  IN  IF looked /\ cached.raised # ""
      THEN Out(None, cached.raised, dir1, 0, "", None, "")
      ELSE IF looked /\ cached.ret # None
      THEN Out(cached.ret, "", dir1, 0, "", None, "")
      ELSE IF net.error # ""
      THEN Out(None, "", [dir1 EXCEPT ![CacheKey(url)] = NoFile], net.attempts,
               net.error, None, "")
      ELSE Out(net.data, "", stored.dir, net.attempts, "", net.data, io)

\* fetch_json without the early return on a cache hit.
fetch_json_no_early_return(dir, url, force_refresh, t, server, io) ==
  LET cached == F1Cache_get(dir, url, t)
      looked == ~force_refresh
      dir1 == IF looked THEN cached.dir ELSE dir
      net == Transport(url, server)
      stored == F1Cache_set(dir1, url, net.data, t, io)
  IN  [ret |-> IF net.error = "" THEN net.data ELSE None,
       raised |-> IF looked THEN cached.raised ELSE "",
       dir |-> IF net.error = "" THEN stored.dir ELSE dir1,
       looked |-> looked, attempts |-> net.attempts, report |-> Report(net.error),
       error |-> net.error, got |-> net.data,
       persist |-> IF net.error = "" THEN io ELSE ""]

\* fetch_json: everything the call does, as one record.
fetch_json(dir, url, force_refresh, t, server, io) ==
  LET cached == F1Cache_get(dir, url, t)
      looked == ~force_refresh
      dir1 == IF looked THEN cached.dir ELSE dir
      net == Transport(url, server)
      stored == F1Cache_set(dir1, url, net.data, t, io)
      Out(v, e, d, n, err, got, w) ==
        [ret |-> v, raised |-> e, dir |-> d, looked |-> looked, attempts |-> n,
         report |-> Report(err), error |-> err, got |-> got, persist |-> w]
  IN  IF looked /\ cached.raised # ""
      THEN Out(None, cached.raised, dir1, 0, "", None, "")
      ELSE IF looked /\ cached.ret # None
      THEN Out(cached.ret, "", dir1, 0, "", None, "")
      ELSE IF net.error # ""
      THEN Out(None, "", dir1, net.attempts, net.error, None, "")
      ELSE IF stored.raised # ""
      THEN Out(None, stored.raised, stored.dir, net.attempts, "", net.data, io)
      ELSE Out(net.data, "", stored.dir, net.attempts, "", net.data, io)

\* The points of fetch_json at which a KeyboardInterrupt can arrive: in the
\* cache lookup, in session.get, in set between open() and the end of
\* json.dump, and after set has returned.
InterruptPoints == {"lookup", "request", "write", "return"}

\* fetch_json ended by a KeyboardInterrupt at the point `at`; no except clause
\* of fetch_json or of set catches it (both name subclasses of Exception).
fetch_json_interrupted(dir, url, force_refresh, t, server, at) ==
  LET cached == F1Cache_get(dir, url, t)
      looked == ~force_refresh
      dir1 == IF looked THEN cached.dir ELSE dir
      net == Transport(url, server)
      stored == F1Cache_set(dir1, url, net.data, t, "ok")
      \* the call gets as far as the point `at`
      requests == ~looked \/ (cached.raised = "" /\ cached.ret = None)
      Out(ok, d, n, got, w) ==
        [ret |-> None, raised |-> "KeyboardInterrupt", dir |-> d, looked |-> looked,
         attempts |-> n, report |-> "", error |-> "", got |-> got, persist |-> w,
         possible |-> ok]
  IN  CASE at = "lookup" -> Out(looked, dir, 0, None, "")
        [] at = "request" -> Out(requests, dir1, net.attempts, None, "")
        [] at = "write" ->
             Out(requests /\ net.error = "",
                 [dir1 EXCEPT ![CacheKey(url)] = Truncated], net.attempts, net.data,
                 "interrupted")
        [] at = "return" ->
             Out(requests /\ net.error = "", stored.dir, net.attempts, net.data, "ok")

\* ------------------------------------------------------------ export_data
\* A payload that is a non-empty array of objects.
Records == "records"
\* `not data`: None, [] and {} are empty.
Empty(data) == data \in {None, "empty_array"}
Nothing == <<>>
Formats == {"json", "csv"}
\* What open(filename, "w") of the export does.
OutOutcomes == {"ok", "open_fails"}

\* An export that writes its file whatever the fetch returned.
export_data_unconditional(data, raised, format, out) == <<format, data>>

\* export_data after its fetch_json has returned data (or raised): the file
\* it writes, <<format, content>>, or Nothing.  export_to_csv flattens the
\* items of an array of objects; for any other payload flatten_json raises
\* before the file is opened, and export_data reports "Export failed".
export_data(data, raised, format, out) ==
  IF raised # "" \/ Empty(data) THEN Nothing
  ELSE IF format = "csv" /\ data # Records THEN Nothing
  ELSE IF out = "open_fails" THEN Nothing
  ELSE <<format, data>>

\* ------------------------------------------------------------ export_to_csv
\* A JSON object is the sequence of its <<key, value>> pairs in insertion
\* order; a value is a scalar (by its str()), a list of scalars or an object.
Scalar(s) == [t |-> "scalar", s |-> s, l |-> <<>>, d |-> <<>>]
List(l) == [t |-> "list", s |-> "", l |-> l, d |-> <<>>]
Dict(d) == [t |-> "dict", s |-> "", l |-> <<>>, d |-> d]

\* sep.join(list)
RECURSIVE Join(_, _)
Join(list, sep) ==
  IF list = <<>> THEN ""
  ELSE IF Len(list) = 1 THEN list[1]
  ELSE list[1] \o sep \o Join(Tail(list), sep)

NoItems == [k \in {} |-> ""]

\* flatten_json: the items of the flattened object, by key; a key assigned
\* twice keeps the later value.
RECURSIVE flatten_json(_, _, _)
flatten_json(data, parent_key, sep) ==
  IF data = <<>> THEN NoItems
  ELSE LET key == data[1][1]
           value == data[1][2]
           \* f"{parent_key}{sep}{key}" if parent_key else key
           new_key == IF parent_key # "" THEN parent_key \o sep \o key ELSE key
           items ==
             CASE value.t = "dict" -> flatten_json(value.d, new_key, sep)
               [] value.t = "list" -> new_key :> Join(value.l, ", ")
               [] value.t = "scalar" -> new_key :> value.s
       IN  flatten_json(Tail(data), parent_key, sep) @@ items

\* The column names the model can meet, in the order of sorted().
SortOrder ==
  <<"", "_name", "driver_name", "driver_numbers", "driver_team_name", "id", "name",
    "numbers">>
sorted(fieldnames) == SelectSeq(SortOrder, LAMBDA k : k \in fieldnames)

\* export_to_csv: the file written, <<header, rows>>, or Nothing.
export_to_csv(data) ==
  IF data = <<>> THEN Nothing
  ELSE LET flattened_data == [i \in 1..Len(data) |-> flatten_json(data[i], "", "_")]
           fieldnames == sorted(UNION {DOMAIN flattened_data[i] : i \in 1..Len(data)})
           row(item) ==
             [j \in 1..Len(fieldnames) |->
                IF fieldnames[j] \in DOMAIN item THEN item[fieldnames[j]] ELSE ""]
       IN  <<fieldnames, [i \in 1..Len(data) |-> row(flattened_data[i])]>>

\* The fields of the records exported in SpecCsv: those of the test, a
\* deeper nesting, and an object under the empty key.
CsvFields ==
  {<<"id", Scalar("1")>>,
   <<"name", Scalar("Second")>>,
   <<"numbers", List(<<"1", "2">>)>>,
   <<"driver", Dict(<< <<"name", Scalar("Test")>>, <<"numbers", List(<<"1", "2">>)>> >>)>>,
   <<"driver", Dict(<< <<"team", Dict(<< <<"name", Scalar("X")>> >>)>> >>)>>,
   <<"", Dict(<< <<"name", Scalar("Test")>> >>)>>}
\* The records: no field, one field, or two fields with different keys.
CsvRecords ==
  {<<>>} \cup {<<f>> : f \in CsvFields}
  \cup {p \in CsvFields \X CsvFields : p[1][1] # p[2][1]}
CsvInputs == UNION {[1..n -> CsvRecords] : n \in 0..MaxRecords}

\* ------------------------------------------------------------ navigation
\* current_year = None, among the integers: as false as 0.
NoYear == 0
\* Context(): nothing selected, nothing listed.  The two caches hold the
\* keys of the records listed last.
Context ==
  [current_year |-> NoYear, current_meeting_key |-> None, current_session_key |-> None,
   current_driver |-> None, meetings_cache |-> <<>>, sessions_cache |-> <<>>]

\* `if x` for a key or a driver number of the context: None is false, a
\* typed number is true.
Truthy(x) == x # None
\* `if x` for the year.
TruthyInt(x) == x # NoYear
\* command.isdigit()
isdigit(command) == command \in Digits
\* The loop `for record in cache: if str(record[key]) == command`.
Listed(cache, command) == \E i \in 1..Len(cache) : cache[i] = command

DriverCommands == {"laps", "stints", "position", "pit", "radio", "car", "all"}

\* The branch of process_command that handles args in context c, in the
\* order the code tests them.
handler(c, args) ==
  LET command == args[1]
  IN  IF command \in {"exit", "quit", "q"} THEN "exit"
      ELSE IF command = "back" THEN "back"
      ELSE IF Truthy(c.current_driver) /\ Truthy(c.current_session_key)
        THEN IF command \in DriverCommands THEN command ELSE "unknown_driver_data"
      ELSE IF isdigit(command) /\ Truthy(c.current_session_key) /\ ~Truthy(c.current_driver)
        THEN "driver"
      ELSE IF isdigit(command) /\ Truthy(c.current_meeting_key)
                /\ ~Truthy(c.current_session_key)
        THEN "session"
      ELSE IF isdigit(command) /\ TruthyInt(c.current_year) /\ ~Truthy(c.current_meeting_key)
        THEN "meeting"
      ELSE IF isdigit(command) /\ command \in FourDigits THEN "year"
      ELSE IF command \in {"gp", "current"} THEN "gp"
      ELSE IF command = "export" THEN "export"
      ELSE IF command = "help" THEN "help"
      ELSE IF command = "cache" THEN "cache"
      ELSE IF command = "refresh" THEN "refresh"
      ELSE IF command = "clear" THEN "clear"
      ELSE IF command \in {"context", "where"} THEN "context"
      ELSE "unknown"

\* A `back` that tests the levels from the year down.
back_from_the_top(c) ==
  IF TruthyInt(c.current_year)
    THEN [ctx |-> [c EXCEPT !.current_year = NoYear], show |-> "", key |-> None]
  ELSE IF Truthy(c.current_meeting_key)
    THEN [ctx |-> [c EXCEPT !.current_meeting_key = None], show |-> "", key |-> None]
  ELSE IF Truthy(c.current_session_key)
    THEN [ctx |-> [c EXCEPT !.current_session_key = None], show |-> "", key |-> None]
  ELSE IF Truthy(c.current_driver)
    THEN [ctx |-> [c EXCEPT !.current_driver = None], show |-> "", key |-> None]
  ELSE [ctx |-> c, show |-> "", key |-> None]

\* The `back` branch up to its call of a view: the context with the level
\* cleared, the view shown next and the key it is shown for.
back(c) ==
  IF Truthy(c.current_driver)
    THEN [ctx |-> [c EXCEPT !.current_driver = None],
          show |-> "show_session_drivers", key |-> c.current_session_key]
  ELSE IF Truthy(c.current_session_key)
    THEN [ctx |-> [c EXCEPT !.current_session_key = None],
          show |-> "show_meeting_sessions", key |-> c.current_meeting_key]
  ELSE IF Truthy(c.current_meeting_key)
    THEN [ctx |-> [c EXCEPT !.current_meeting_key = None],
          show |-> IF TruthyInt(c.current_year) THEN "show_year_meetings" ELSE "",
          key |-> c.current_year]
  ELSE IF TruthyInt(c.current_year)
    THEN [ctx |-> [c EXCEPT !.current_year = NoYear], show |-> "", key |-> None]
  ELSE [ctx |-> c, show |-> "", key |-> None]

\* The view refresh and clear show again, and the key they show it for.
current_view(c) ==
  IF Truthy(c.current_driver)
    THEN [show |-> "show_driver_menu", key |-> c.current_session_key]
  ELSE IF Truthy(c.current_session_key)
    THEN [show |-> "show_session_drivers", key |-> c.current_session_key]
  ELSE IF Truthy(c.current_meeting_key)
    THEN [show |-> "show_meeting_sessions", key |-> c.current_meeting_key]
  ELSE IF TruthyInt(c.current_year)
    THEN [show |-> "show_year_meetings", key |-> c.current_year]
  ELSE [show |-> "", key |-> None]

\* The params of `export <endpoint>` typed without key=value arguments: the
\* session, the driver and the year of the context, in that order.
export_params(c) ==
  (IF Truthy(c.current_session_key)
     THEN << <<"session_key", c.current_session_key>> >> ELSE <<>>)
  \o (IF Truthy(c.current_driver)
        THEN << <<"driver_number", c.current_driver>> >> ELSE <<>>)
  \o (IF TruthyInt(c.current_year) THEN << <<"year", str(c.current_year)>> >> ELSE <<>>)

\* ------------------------------------------------------------------ state
\* now        datetime.now(), in ticks
\* cache_dir  the files of F1Cache.cache_dir, by cache key
\* last       the call made last: its arguments, what it returned or raised
\*            and what it did on the way
\* ctx        the navigation context, state.ctx
VARIABLES now, cache_dir, last, ctx
vars == <<now, cache_dir, last, ctx>>

\* No upstream: the call made no request.
NoServer == [fails |-> 0, failure |-> "", final |-> "", body |-> None]

NoCall ==
  [op |-> "none", url |-> <<>>, force |-> FALSE, data |-> None, endpoint |-> NoEndpoint,
   ret |-> None, raised |-> "", looked |-> FALSE, attempts |-> 0, error |-> "",
   report |-> "", got |-> None, persist |-> "", cleared |-> 0, stats |-> NoStats,
   server |-> NoServer, format |-> "", out |-> "", written |-> Nothing,
   existed |-> FALSE, handler |-> ""]

UrlsOf(k) == {u \in KnownUrls : CacheKey(u) = k}
Endpoints == {NoEndpoint, <<"sessions">>} \cup {EndpointType(u) : u \in Urls}

\* The arguments of the direct calls of set: an object, null and a payload
\* that cannot be serialised, and the two ways the file system can fail the
\* write.
SetArgs ==
  {a \in [data : {"object", None, Unserialisable}, io : IoOutcomes] :
      a.io # "ok" => a.data = "object"}
\* The upstream and the file system that a fetch_json call meets.
FetchEnvs ==
  {e \in [server : Upstreams, io : IoOutcomes] :
      e.io # "ok" => e.server.final = "200" /\ e.server.fails = 0 /\ e.server.body = "object"}

\* F1Cache.__init__ creates the directory if it is missing and keeps what it
\* holds: the files of an earlier run, whole or damaged.
InitDir(urls) ==
  LET keys == {CacheKey(u) : u \in urls}
      damaged == {S \in SUBSET keys : Cardinality(S) <= MaxDamaged}
      Files(S) ==
        {f \in [S -> UNION {Damaged(u) : u \in urls}] :
            \A k \in S : f[k] \in UNION {Damaged(u) : u \in UrlsOf(k) \cap urls}}
  IN  UNION {{[k \in Keys |-> IF k \in S THEN f[k] ELSE NoFile] : f \in Files(S)} :
               S \in damaged}

Init ==
  /\ now = 0
  /\ cache_dir \in InitDir(Urls)
  /\ last = NoCall
  /\ ctx = Context

\* Half an hour passes between two calls.
Elapse(limit) ==
  /\ now < limit
  /\ now' = now + 1
  /\ last' = NoCall
  /\ UNCHANGED <<cache_dir, ctx>>

Tick == Elapse(MaxTime)

Get(url) ==
  LET r == F1Cache_get(cache_dir, url, now)
  IN  /\ cache_dir' = r.dir
      /\ last' = [NoCall EXCEPT !.op = "get", !.url = url, !.looked = TRUE,
                                 !.ret = r.ret, !.raised = r.raised]
      /\ UNCHANGED <<now, ctx>>

Set(url, data, io) ==
  LET r == F1Cache_set(cache_dir, url, data, now, io)
  IN  /\ cache_dir' = r.dir
      /\ last' = [NoCall EXCEPT !.op = "set", !.url = url, !.data = data, !.persist = io,
                                 !.raised = r.raised]
      /\ UNCHANGED <<now, ctx>>

Clear(endpoint) ==
  LET r == F1Cache_clear(cache_dir, endpoint)
  IN  /\ cache_dir' = r.dir
      /\ last' = [NoCall EXCEPT !.op = "clear", !.endpoint = endpoint,
                                 !.ret = r.ret, !.cleared = r.cleared]
      /\ UNCHANGED <<now, ctx>>

Stats ==
  /\ last' = [NoCall EXCEPT !.op = "stats", !.stats = F1Cache_stats(cache_dir)]
  /\ UNCHANGED <<now, cache_dir, ctx>>

FetchJson(url, force_refresh, server, io) ==
  LET r == fetch_json(cache_dir, url, force_refresh, now, server, io)
  IN  /\ cache_dir' = r.dir
      /\ last' = [NoCall EXCEPT !.op = "fetch_json", !.url = url, !.force = force_refresh,
                                 !.ret = r.ret, !.raised = r.raised, !.looked = r.looked,
                                 !.attempts = r.attempts, !.error = r.error,
                                 !.report = r.report, !.got = r.got, !.persist = r.persist,
                                 !.server = IF r.attempts > 0 THEN server ELSE NoServer,
                                 !.existed = cache_dir[CacheKey(url)].kind = "ok"]
      /\ UNCHANGED <<now, ctx>>

\* A fetch_json during which the user presses Ctrl-C.  The interrupt can
\* arrive in the lookup only if there is one, in the request only if the
\* call gets that far, and in or after the write only if the request
\* succeeded.
InterruptedFetch(url, force_refresh, server, at) ==
  LET r == fetch_json_interrupted(cache_dir, url, force_refresh, now, server, at)
  IN  /\ r.possible
      /\ cache_dir' = r.dir
      /\ last' = [NoCall EXCEPT !.op = "fetch_json", !.url = url, !.force = force_refresh,
                                 !.raised = r.raised, !.looked = r.looked,
                                 !.attempts = r.attempts, !.got = r.got,
                                 !.persist = r.persist,
                                 !.server = IF r.attempts > 0 THEN server ELSE NoServer]
      /\ UNCHANGED <<now, ctx>>

\* export_data as a whole: the URL, the one fetch_json(url) and the file.
ExportData(endpoint, params, format, server, out) ==
  LET url == export_url(endpoint, params)
      r == fetch_json(cache_dir, url, FALSE, now, server, "ok")
  IN  /\ cache_dir' = r.dir
      /\ last' = [NoCall EXCEPT !.op = "export_data", !.url = url, !.data = params,
                                 !.ret = r.ret, !.raised = r.raised, !.looked = r.looked,
                                 !.attempts = r.attempts, !.error = r.error,
                                 !.report = r.report, !.got = r.got, !.persist = r.persist,
                                 !.server = IF r.attempts > 0 THEN server ELSE NoServer,
                                 !.format = format, !.out = out,
                                 !.written = export_data(r.ret, r.raised, format, out)]
      /\ UNCHANGED <<now, ctx>>

\* export_to_csv applied to the records that wait in last.data.
ExportToCsv ==
  /\ last.op = "none"
  /\ last.data \in CsvInputs
  /\ last' = [last EXCEPT !.op = "export_to_csv", !.format = "csv", !.out = "ok",
                          !.written = export_to_csv(last.data)]
  /\ UNCHANGED <<now, cache_dir, ctx>>

Next ==
  \/ Tick
  \/ \E url \in Urls : Get(url)
  \/ \E url \in Urls, a \in SetArgs : Set(url, a.data, a.io)
  \/ \E endpoint \in Endpoints : Clear(endpoint)
  \/ Stats
  \/ \E url \in Urls, force_refresh \in BOOLEAN, e \in FetchEnvs :
        FetchJson(url, force_refresh, e.server, e.io)

Spec == Init /\ [][Next]_vars

\* Storing and looking up over a long time: set and get only, for every URL,
\* starting from an empty directory.
InitTtl ==
  /\ now = 0
  /\ cache_dir = [k \in Keys |-> NoFile]
  /\ last = NoCall
  /\ ctx = Context

TickLong == Elapse(MaxLongTime)

NextTtl ==
  \/ TickLong
  \/ \E url \in AllUrls : Get(url)
  \/ \E url \in AllUrls : Set(url, "object", "ok")

SpecTtl == InitTtl /\ [][NextTtl]_vars

\* The two URLs that differ by an "http://" inside the query only.
NestedUrls == {UrlNested, UrlNestedPlain}
\* The upstreams that answer the first attempt with a payload.
Answering == {s \in Upstreams : s.fails = 0 /\ s.final = "200" /\ s.body # None}

\* Storing, looking up and fetching under the different forms of an
\* identity, starting from an empty directory.
NextUrl ==
  \/ Tick
  \/ \E url \in FormUrls : Get(url)
  \/ \E url \in FormUrls : Set(url, "object", "ok")
  \/ \E url \in NestedUrls, force_refresh \in BOOLEAN, server \in Answering :
        FetchJson(url, force_refresh, server, "ok")

SpecUrl == InitTtl /\ [][NextUrl]_vars

\* The URLs requested in SpecNet: one the retrying adapter is mounted for
\* and one it is not.
NetUrls == {UrlLaps, UrlLapsHttp}

\* The upstreams of SpecNet: every number of failures in a row, of every
\* kind, before every kind of final answer.
NetServers == {s \in Servers : s.final = "200" => s.body = "object"}

\* The network leg against every upstream, with and without an interrupt,
\* starting from an empty directory.
NextNet ==
  \/ \E url \in NetUrls, force_refresh \in BOOLEAN, server \in NetServers :
        FetchJson(url, force_refresh, server, "ok")
  \/ \E url \in NetUrls, force_refresh \in BOOLEAN, server \in Upstreams,
        at \in InterruptPoints :
        InterruptedFetch(url, force_refresh, server, at)

SpecNet == InitTtl /\ [][NextNet]_vars

\* The upstreams of SpecExport answer the first attempt: with an object, an
\* array of objects, an empty array, null, or 404.
ExportServers ==
  {[fails |-> 0, failure |-> "503", final |-> "200", body |-> b] :
      b \in Payloads \cup {Records}}
  \cup {[fails |-> 0, failure |-> "503", final |-> "404", body |-> None]}

\* Exports of the laps endpoint, and clearing the cache between them,
\* starting from an empty directory.
NextExport ==
  \/ \E params \in ExportParams, format \in Formats, server \in ExportServers,
        out \in OutOutcomes :
        ExportData("laps", params, format, server, out)
  \/ Clear(NoEndpoint)

SpecExport == InitTtl /\ [][NextExport]_vars

\* export_to_csv applied to one input of CsvInputs, drawn at the start.
InitCsv ==
  /\ now = 0
  /\ cache_dir = [k \in Keys |-> NoFile]
  /\ \E data \in CsvInputs : last = [NoCall EXCEPT !.data = data]
  /\ ctx = Context

NextCsv == ExportToCsv

SpecCsv == InitCsv /\ [][NextCsv]_vars

\* ---------------------------------------------------------- process_command
\* The record of a process_command(args) call, and of the fetch_json call
\* it made last.
Called(args) ==
  [NoCall EXCEPT !.op = "process_command", !.data = args, !.handler = handler(ctx, args)]
Requested(call, url, force_refresh, r) ==
  [call EXCEPT !.url = url, !.force = force_refresh, !.ret = r.ret, !.looked = r.looked,
               !.attempts = r.attempts]

\* A branch that only prints: the context is c afterwards.
Stay(c, call) ==
  /\ ctx' = c
  /\ last' = call
  /\ UNCHANGED <<now, cache_dir>>

\* The views, entered with context c.
show_year_meetings(c, year, force_refresh, server, call) ==
  \E r \in {fetch_json(cache_dir, UrlMeetings(year), force_refresh, now, server, "ok")} :
    /\ cache_dir' = r.dir
    /\ ctx' = IF Empty(r.ret) THEN c
              ELSE [c EXCEPT !.meetings_cache = Listing(UrlMeetings(year)),
                             !.current_year = year]
    /\ last' = Requested(call, UrlMeetings(year), force_refresh, r)
    /\ UNCHANGED now

show_meeting_sessions(c, meeting_key, force_refresh, server, call) ==
  IF ~Listed(c.meetings_cache, meeting_key) THEN Stay(c, call)
  ELSE
    \E r \in {fetch_json(cache_dir, UrlMeetingSessions(meeting_key), force_refresh, now,
                         server, "ok")} :
      /\ cache_dir' = r.dir
      /\ ctx' = IF Empty(r.ret) THEN c
                ELSE [c EXCEPT !.sessions_cache = Listing(UrlMeetingSessions(meeting_key)),
                               !.current_session_key = None,
                               !.current_meeting_key = meeting_key]
      /\ last' = Requested(call, UrlMeetingSessions(meeting_key), force_refresh, r)
      /\ UNCHANGED now

show_session_drivers(c, session_key, force_refresh, server, call) ==
  \E sessions \in {fetch_json(cache_dir, UrlSession(session_key), force_refresh, now,
                              server, "ok")} :
  \E results \in {fetch_json(sessions.dir, UrlSessionResult(session_key), force_refresh,
                             now, server, "ok")} :
  \E drivers \in {fetch_json(results.dir, UrlSessionDrivers(session_key), force_refresh,
                             now, server, "ok")} :
    /\ cache_dir' = drivers.dir
    /\ ctx' = IF Empty(drivers.ret) THEN c
              ELSE [c EXCEPT !.current_session_key = session_key]
    /\ last' = Requested(call, UrlSessionDrivers(session_key), force_refresh, drivers)
    /\ UNCHANGED now

show_driver_menu(c, session_key, driver_number, force_refresh, server, call) ==
  \E r \in {fetch_json(cache_dir, UrlDriver(session_key, driver_number), force_refresh,
                       now, server, "ok")} :
    /\ cache_dir' = r.dir
    /\ ctx' = [c EXCEPT !.current_driver = driver_number]
    /\ last' = Requested(call, UrlDriver(session_key, driver_number), force_refresh, r)
    /\ UNCHANGED now

show_driver_laps(c, session_key, driver_number, force_refresh, server, call) ==
  \E r \in {fetch_json(cache_dir, UrlDriverLaps(session_key, driver_number),
                       force_refresh, now, server, "ok")} :
    /\ cache_dir' = r.dir
    /\ ctx' = c
    /\ last' = Requested(call, UrlDriverLaps(session_key, driver_number), force_refresh, r)
    /\ UNCHANGED now

\* The call of the view a branch ends with, if it ends with one.
Show(view, key, c, force_refresh, server, call) ==
  \/ view = "" /\ Stay(c, call)
  \/ view = "show_year_meetings" /\ show_year_meetings(c, key, force_refresh, server, call)
  \/ view = "show_meeting_sessions"
       /\ show_meeting_sessions(c, key, force_refresh, server, call)
  \/ view = "show_session_drivers"
       /\ show_session_drivers(c, key, force_refresh, server, call)
  \/ view = "show_driver_menu"
       /\ show_driver_menu(c, key, c.current_driver, force_refresh, server, call)

\* process_command(args), branch by branch.
Back(args, server) ==
  /\ handler(ctx, args) = "back"
  /\ Show(back(ctx).show, back(ctx).key, back(ctx).ctx, FALSE, server, Called(args))

DriverData(args, server) ==
  /\ handler(ctx, args) \in {"laps", "car", "unknown_driver_data"}
  /\ IF args[1] = "laps"
       THEN show_driver_laps(ctx, ctx.current_session_key, ctx.current_driver, FALSE,
                             server, Called(args))
       ELSE Stay(ctx, Called(args))

SelectDriver(args, server) ==
  /\ handler(ctx, args) = "driver"
  /\ args[1] \in DriverNumbers
  /\ show_driver_menu(ctx, ctx.current_session_key, args[1], FALSE, server, Called(args))

SelectSession(args, server) ==
  /\ handler(ctx, args) = "session"
  /\ IF Listed(ctx.sessions_cache, args[1])
       THEN show_session_drivers(ctx, args[1], FALSE, server, Called(args))
       ELSE Stay(ctx, Called(args))

SelectMeeting(args, server) ==
  /\ handler(ctx, args) = "meeting"
  /\ IF Listed(ctx.meetings_cache, args[1])
       THEN show_meeting_sessions(ctx, args[1], FALSE, server, Called(args))
       ELSE Stay(ctx, Called(args))

SelectYear(args, server) ==
  /\ handler(ctx, args) = "year"
  /\ IF 1950 <= int(args[1]) /\ int(args[1]) <= ThisYear + 1
       THEN show_year_meetings(ctx, int(args[1]), FALSE, server, Called(args))
       ELSE Stay(ctx, Called(args))

\* export: the usage message, or export_data to the default file as JSON.
Export(args, server) ==
  /\ handler(ctx, args) = "export"
  /\ IF Len(args) < 2 THEN Stay(ctx, Called(args))
     ELSE
       \E r \in {fetch_json(cache_dir, export_url(args[2], export_params(ctx)), FALSE,
                            now, server, "ok")} :
         /\ cache_dir' = r.dir
         /\ ctx' = ctx
         /\ last' = [Requested(Called(args), export_url(args[2], export_params(ctx)),
                             FALSE, r)
                       EXCEPT !.format = "json", !.out = "ok",
                              !.written = export_data(r.ret, r.raised, "json", "ok")]
         /\ UNCHANGED now

\* help, context and an unknown command print and change nothing.
Printing(args) ==
  /\ handler(ctx, args) \in {"help", "context", "unknown"}
  /\ Stay(ctx, Called(args))

Cache(args) ==
  /\ handler(ctx, args) = "cache"
  /\ IF Len(args) > 1 /\ args[2] = "clear"
       THEN \E r \in {F1Cache_clear(cache_dir, NoEndpoint)} :
              /\ cache_dir' = r.dir
              /\ ctx' = ctx
              /\ last' = [Called(args) EXCEPT !.cleared = r.cleared]
              /\ UNCHANGED now
     ELSE IF Len(args) > 1 /\ args[2] = "stats"
       THEN /\ ctx' = ctx
            /\ last' = [Called(args) EXCEPT !.stats = F1Cache_stats(cache_dir)]
            /\ UNCHANGED <<now, cache_dir>>
     ELSE Stay(ctx, Called(args))

Refresh(args, server) ==
  /\ handler(ctx, args) = "refresh"
  /\ Show(current_view(ctx).show, current_view(ctx).key, ctx, TRUE, server, Called(args))

ClearScreen(args, server) ==
  /\ handler(ctx, args) = "clear"
  /\ Show(current_view(ctx).show, current_view(ctx).key, ctx, FALSE, server, Called(args))

\* What the user types, split into words.
NavCommands ==
  {<<d>> : d \in Digits}
  \cup {<<"back">>, <<"laps">>, <<"car">>, <<"pits">>, <<"help">>, <<"export">>,
        <<"export", "laps">>, <<"cache">>, <<"cache", "clear">>, <<"refresh">>,
        <<"clear">>, <<"context">>}

\* The upstream of a command: it answers with the records or with 404.
NavServers == {s \in ExportServers : s.final = "200" => s.body = Records}

\* The interactive loop from a fresh start: one command after another.
NextNav ==
  \E args \in NavCommands :
    \/ \E server \in NavServers : Back(args, server)
    \/ \E server \in NavServers : DriverData(args, server)
    \/ \E server \in NavServers : SelectDriver(args, server)
    \/ \E server \in NavServers : SelectSession(args, server)
    \/ \E server \in NavServers : SelectMeeting(args, server)
    \/ \E server \in NavServers : SelectYear(args, server)
    \/ \E server \in NavServers : Export(args, server)
    \/ Printing(args)
    \/ Cache(args)
    \/ \E server \in NavServers : Refresh(args, server)
    \/ \E server \in NavServers : ClearScreen(args, server)

SpecNav == InitTtl /\ [][NextNav]_vars

\* ------------------------------------------------------------------ claims
\* The time to live the policy gives each URL of the model, in ticks of half
\* an hour: laps 1 h, position 0.5 h, team_radio (not in the policy) the
\* default of 6 h.
TtlOf(url) ==
  CASE url \in {UrlLaps, UrlLapsHttp} -> 2
    [] url = UrlPosition -> 1
    [] url = UrlTeamRadio -> 12

\* The file of url's key.
FileOf(dir, url) == dir[CacheKey(url)]
\* url's key holds a complete record that has not expired at t.
FreshEntry(dir, url, t) ==
  /\ FileOf(dir, url).kind = "ok"
  /\ t < FileOf(dir, url).cached_at + TtlOf(url)

\* C2: an entry stored at T for a URL whose category has time to live H is
\* returned by get at every t with T <= t < T + H and is absent (None) at
\* T + H and at every later time.
C2_FreshnessBoundary ==
  [][ (last'.op = "get" /\ FileOf(cache_dir, last'.url).kind = "ok")
        => LET rec == FileOf(cache_dir, last'.url)
           IN  /\ last'.raised = ""
               /\ now < rec.cached_at + TtlOf(last'.url) => last'.ret = rec.data
               /\ now >= rec.cached_at + TtlOf(last'.url) => last'.ret = None ]_vars

\* A get of the default category exactly at the expiry instant finds the
\* entry absent.
C2_Witness ==
  /\ last.op = "get" /\ last.url = UrlTeamRadio
  /\ FileOf(cache_dir, UrlTeamRadio).kind = "ok"
  /\ FileOf(cache_dir, UrlTeamRadio).data = "object"
  /\ now = FileOf(cache_dir, UrlTeamRadio).cached_at + 12
  /\ last.ret = None


\* C1 as stated: a fetch_json(url, force_refresh=False) that finds a fresh,
\* parseable entry for url's key returns its payload without any network
\* activity.
C1_AsStated ==
  [][ (/\ last'.op = "fetch_json" /\ ~last'.force
       /\ FreshEntry(cache_dir, last'.url, now))
        => /\ last'.ret = FileOf(cache_dir, last'.url).data
           /\ last'.attempts = 0 ]_vars

\* C1, amended: a fetch_json(url, force_refresh=False) that finds a fresh,
\* parseable entry for url's key whose payload is not null returns that
\* payload without any network activity, and leaves the directory as it is.
C1_CacheHit ==
  [][ (/\ last'.op = "fetch_json" /\ ~last'.force
       /\ FreshEntry(cache_dir, last'.url, now)
       /\ FileOf(cache_dir, last'.url).data # None)
        => /\ last'.ret = FileOf(cache_dir, last'.url).data
           /\ last'.raised = ""
           /\ last'.attempts = 0
           /\ cache_dir' = cache_dir ]_vars

\* A non-bypass fetch answered from a fresh entry stored at an earlier
\* instant.
C1_Witness ==
  /\ last.op = "fetch_json" /\ ~last.force /\ last.attempts = 0
  /\ FreshEntry(cache_dir, last.url, now)
  /\ FileOf(cache_dir, last.url).cached_at < now
  /\ last.ret = "empty_array"

\* The call made last was a fetch_json that got a body from the network.
Fetched(call) == call.op = "fetch_json" /\ call.attempts > 0 /\ call.error = ""
\* The call is a lookup of url's key: a get, or a fetch_json without bypass.
LooksUp(call, url) ==
  /\ call.op = "get" \/ (call.op = "fetch_json" /\ ~call.force)
  /\ call.url # <<>>
  /\ CacheKey(call.url) = CacheKey(url)

\* C3 as stated: when fetch_json(url) has missed the cache and got payload P
\* from the network, the entry of url holds P, and the next get(url) and
\* the next fetch_json(url) before the time to live has elapsed return P
\* with no network call, for every payload P, null included.
C3_AsStated ==
  [][ /\ (Fetched(last') /\ ~last'.force)
         => /\ FileOf(cache_dir', last'.url).kind = "ok"
            /\ FileOf(cache_dir', last'.url).data = last'.got
      /\ (Fetched(last) /\ ~last.force /\ LooksUp(last', last.url))
         => last'.ret = last.got /\ last'.attempts = 0
      /\ (LooksUp(last', last'.url) /\ FreshEntry(cache_dir, last'.url, now))
         => last'.ret = FileOf(cache_dir, last'.url).data /\ last'.attempts = 0 ]_vars

\* C3, amended: when fetch_json(url) has missed the cache, got a payload P
\* other than null from the network and the write of the entry succeeded,
\* the entry of url holds P with the time of the write, the call made next
\* returns P with no network call if it is a get(url) or a non-bypass
\* fetch_json(url), and so does every such call that finds the entry
\* before its time to live has elapsed.
C3_WriteThrough ==
  [][ /\ (Fetched(last') /\ ~last'.force /\ last'.persist = "ok")
         => /\ last'.ret = last'.got
            /\ FileOf(cache_dir', last'.url) =
                  [kind |-> "ok", url |-> last'.url, cached_at |-> now,
                   endpoint |-> FileOf(cache_dir', last'.url).endpoint,
                   data |-> last'.got]
      /\ (/\ Fetched(last) /\ ~last.force /\ last.persist = "ok" /\ last.got # None
          /\ LooksUp(last', last.url))
         => last'.ret = last.got /\ last'.attempts = 0 /\ last'.raised = ""
      /\ (/\ LooksUp(last', last'.url)
          /\ FreshEntry(cache_dir, last'.url, now)
          /\ FileOf(cache_dir, last'.url).data # None)
         => last'.ret = FileOf(cache_dir, last'.url).data /\ last'.attempts = 0 ]_vars

\* A get that returns the empty array a fetch_json wrote through at an
\* earlier instant, after a miss (in Spec no other call stores the empty
\* array).
C3_Witness ==
  /\ last.op = "get" /\ last.ret = "empty_array"
  /\ FileOf(cache_dir, last.url).kind = "ok"
  /\ FileOf(cache_dir, last.url).cached_at < now
  /\ FileOf(cache_dir, last.url).url = last.url

\* The kinds of file that do not hold a complete record.
CorruptKinds == {"unreadable", "badjson", "notobject", "nocachedat", "badcachedat", "nodata"}

\* C4: fetch_json(url, force_refresh=True) always makes the network call and
\* never reads the cache entry of url, whatever the cache holds for it: the
\* file of url is afterwards what it was, or what set has written.
C4_BypassNeverReads ==
  [][ (last'.op = "fetch_json" /\ last'.force)
        => /\ ~last'.looked
           /\ last'.attempts >= 1
           /\ last'.raised = ""
           /\ last'.error = "" => last'.ret = last'.got
           /\ last'.error # "" => cache_dir' = cache_dir
           /\ \A k \in Keys : cache_dir'[k] # cache_dir[k]
                 => /\ k = CacheKey(last'.url)
                    /\ last'.error = ""
                    /\ cache_dir'[k].kind \in {"ok", "badjson"} ]_vars

\* A bypass fetch that went to the network over a fresh entry with a payload
\* and, the request having failed, left that entry in place.
C4_Witness ==
  /\ last.op = "fetch_json" /\ last.force /\ last.attempts >= 1 /\ last.error # ""
  /\ FreshEntry(cache_dir, last.url, now)
  /\ FileOf(cache_dir, last.url).data = "object"

\* C5 as stated: when the network leg of fetch_json fails, the cache store
\* is exactly as it was before the call.
C5_AsStated ==
  [][ (last'.op = "fetch_json" /\ last'.error # "") => cache_dir' = cache_dir ]_vars

\* C5, amended: when the network leg of fetch_json fails, every entry is as
\* it was before the call, except that a call without bypass has deleted the
\* file of the requested key if that file was corrupt; with bypass the store
\* is exactly as it was.  The call returns None.
C5_FailureLeavesCache ==
  [][ (last'.op = "fetch_json" /\ last'.error # "")
        => /\ last'.ret = None
           /\ last'.persist = ""
           /\ \A k \in Keys :
                 \/ cache_dir'[k] = cache_dir[k]
                 \/ /\ k = CacheKey(last'.url)
                    /\ ~last'.force
                    /\ cache_dir[k].kind \in CorruptKinds
                    /\ cache_dir'[k] = NoFile ]_vars

\* A failed bypass fetch over an expired entry: the stale entry is still
\* there.
C5_Witness ==
  /\ last.op = "fetch_json" /\ last.force /\ last.error = "ConnectTimeout"
  /\ FileOf(cache_dir, last.url).kind = "ok"
  /\ FileOf(cache_dir, last.url).data = "object"
  /\ ~FreshEntry(cache_dir, last.url, now)

\* C6: get never raises to its caller, whatever the file of the entry holds,
\* and so a fetch_json without bypass never fails because of the cache.
C6_GetNeverRaises ==
  (last.op = "get" \/ (last.op = "fetch_json" /\ ~last.force)) => last.raised = ""

\* C7: when the file of key K is corrupt or unparseable in any way, get for K
\* returns None and deletes the file, and a fetch_json without bypass treats
\* K as a miss and goes to the network.
C7_CorruptSelfHeals ==
  [][ (/\ LooksUp(last', last'.url)
       /\ FileOf(cache_dir, last'.url).kind \in CorruptKinds)
        => /\ last'.raised = ""
           /\ last'.op = "get" => last'.ret = None /\ FileOf(cache_dir', last'.url) = NoFile
           /\ last'.op = "fetch_json" => last'.attempts >= 1 ]_vars

\* C8: when persisting the entry fails inside set, set raises nothing and the
\* fetch_json that got the payload from the network still returns it.
C8_WriteFailureSwallowed ==
  /\ last.op = "set" => last.raised = ""
  /\ (last.op = "fetch_json" /\ last.persist \in {"open_fails", "write_fails"})
       => /\ last.raised = ""
          /\ last.error = ""
          /\ last.ret = last.got
          /\ last.attempts >= 1

\* A fetch_json whose write stopped half way: the payload is returned and
\* the file is left truncated.
C8_Witness ==
  /\ last.op = "fetch_json" /\ last.persist = "write_fails"
  /\ last.ret = "object"
  /\ FileOf(cache_dir, last.url) = Truncated

\* The scan of clear reads the file as a JSON object.
ParsesAsObject(rec) == rec.kind \in {"ok", "nocachedat", "badcachedat", "nodata"}
\* The scan of clear reads the file as JSON.
ParsesAsJson(rec) == ParsesAsObject(rec) \/ rec.kind = "notobject"

\* C9: clear(c) deletes every entry that parses and whose stored category is
\* c and every entry that fails to parse (as a JSON object, in the scan), and
\* leaves every other entry unchanged; clear() deletes all entries, and a
\* stats() right after it reports total 0.
C9_ClearSemantics ==
  [][ /\ last'.op = "clear"
         => \A k \in Keys :
              LET rec == cache_dir[k]
                  c == last'.endpoint
              IN  IF \/ c = NoEndpoint
                     \/ ~ParsesAsObject(rec)
                     \/ rec.endpoint = c
                  THEN cache_dir'[k] = NoFile
                  ELSE cache_dir'[k] = rec
      /\ (last.op = "clear" /\ last.endpoint = NoEndpoint /\ last'.op = "stats")
         => last'.stats.total = 0 ]_vars

\* clear("laps") has deleted the laps entry and kept the position entry
\* written at an earlier instant.
C9_Witness ==
  /\ last.op = "clear" /\ last.endpoint = <<"laps">> /\ last.cleared = 1
  /\ FileOf(cache_dir, UrlLaps) = NoFile
  /\ FileOf(cache_dir, UrlPosition).kind = "ok"
  /\ FileOf(cache_dir, UrlPosition).cached_at < now

\* The number of files a clear removed.
Deleted(before, after) ==
  Cardinality({k \in Keys : before[k].kind # "none" /\ after[k].kind = "none"})

StatsParses(rec) == rec.kind \in {"ok", "nodata"}

\* C11: stats() modifies no entry, and an entry that fails to parse (invalid
\* JSON, JSON that is not an object, a missing or non-ISO "cached_at")
\* contributes to none of the reported figures: total, the counts by
\* category and the total size are those of the entries that parse.
C11_StatsSkipsUnparseable ==
  [][ last'.op = "stats"
        => LET parsed == {k \in Keys : StatsParses(cache_dir[k])}
           IN  /\ cache_dir' = cache_dir
               /\ last'.stats.total = Cardinality(parsed)
               /\ \A e \in DOMAIN last'.stats.by_endpoint :
                     last'.stats.by_endpoint[e] =
                       Cardinality({k \in parsed : cache_dir[k].endpoint = e})
               /\ parsed = {} => last'.stats.total_size = 0 ]_vars

\* ------------------------------------------------------------ key and category
StartsWith(url, prefix) ==
  Len(url) >= Len(prefix) /\ SubSeq(url, 1, Len(prefix)) = prefix
\* What follows the scheme prefix of url.
Remainder(url) ==
  IF StartsWith(url, HTTPS) THEN SubSeq(url, Len(HTTPS) + 1, Len(url))
  ELSE IF StartsWith(url, HTTP) THEN SubSeq(url, Len(HTTP) + 1, Len(url))
  ELSE url
\* The same remainder under the other scheme.
OtherScheme(url) ==
  IF StartsWith(url, HTTPS) THEN HTTP \o Remainder(url)
  ELSE IF StartsWith(url, HTTP) THEN HTTPS \o Remainder(url)
  ELSE url
\* Remainders of the kinds the program meets, and ones that themselves
\* contain a scheme prefix.
Remainders ==
  {Remainder(u) : u \in KnownUrls} \cup {HTTP \o <<"y">>, HTTPS \o <<"y">>, <<>>}

\* C12: for every remainder R the key of "https://" + R equals the key of
\* "http://" + R, and a get under one scheme returns the unexpired payload
\* that was stored under the other scheme.
C12_SchemeInsensitiveKey ==
  [][ /\ \A R \in Remainders : get_cache_key(HTTPS \o R) = get_cache_key(HTTP \o R)
      /\ \A k \in Keys :
            ( /\ last'.op = "get"
              /\ cache_dir[k].kind = "ok"
              /\ cache_dir[k].url # last'.url
              /\ cache_dir[k].url = OtherScheme(last'.url)
              /\ cache_dir[k].data # None
              /\ Fresh(now, cache_dir[k].cached_at + TtlOf(last'.url)) )
            => last'.ret = cache_dir[k].data ]_vars

\* A get of the https URL has returned the payload stored under the http URL.
C12_Witness ==
  /\ last.op = "get"
  /\ last.url = UrlLaps
  /\ last.ret = "object"
  /\ \E k \in Keys : cache_dir[k].kind = "ok" /\ cache_dir[k].url = UrlLapsHttp

\* ------------------------------------------------------------ one entry per key
\* The record set writes for url at instant t.
Written(url, data, t) ==
  [kind |-> "ok", url |-> url, endpoint |-> EndpointType(url), cached_at |-> t,
   data |-> data]
\* A fetch_json that got its payload from the network.
NetworkSuccess(call) ==
  call.op = "fetch_json" /\ call.attempts > 0 /\ call.error = ""
\* Every entry lies in the one file named by the key of its own URL.
OneEntryPerKey(dir) ==
  \A k \in Keys : dir[k].kind = "ok" => CacheKey(dir[k].url) = k
OthersUnchanged(before, after, url) ==
  \A k \in Keys \ {CacheKey(url)} : after[k] = before[k]

\* C13 as stated: the store holds at most one entry per key, and each
\* successful network fetch creates or overwrites exactly the entry of its
\* own key and leaves every other entry unchanged.
C13_AsStated ==
  [][ /\ OneEntryPerKey(cache_dir')
      /\ NetworkSuccess(last')
            => /\ FileOf(cache_dir', last'.url) = Written(last'.url, last'.got, now)
               /\ OthersUnchanged(cache_dir, cache_dir', last'.url) ]_vars

\* C13, amended: the store holds at most one entry per key; a fetch_json, a
\* set or a get touches no file but that of its own key; and a successful
\* network fetch overwrites the entry of its own key when the cache write
\* succeeds, leaves a truncated file when the write fails part-way, and when
\* the file cannot be opened leaves it as the lookup left it.
C13_OwnKeyOnly ==
  [][ /\ OneEntryPerKey(cache_dir')
      /\ last'.op \in {"fetch_json", "set", "get"}
            => OthersUnchanged(cache_dir, cache_dir', last'.url)
      /\ NetworkSuccess(last')
            => LET own == FileOf(cache_dir', last'.url)
                   was == FileOf(cache_dir, last'.url)
               IN  CASE last'.persist = "ok" ->
                          own = Written(last'.url, last'.got, now)
                     [] last'.persist = "write_fails" -> own = Truncated
                     [] last'.persist = "open_fails" -> own \in {was, NoFile}
                     [] OTHER -> FALSE ]_vars

\* A successful network fetch has replaced the entry of its key, written at
\* an earlier instant or not at all, while the other key holds an entry
\* written earlier.
C13_Witness ==
  /\ NetworkSuccess(last)
  /\ last.persist = "ok"
  /\ FileOf(cache_dir, last.url) = Written(last.url, last.got, now)
  /\ \E k \in Keys \ {CacheKey(last.url)} :
        cache_dir[k].kind = "ok" /\ cache_dir[k].cached_at < now

\* ------------------------------------------------------------ expiry
\* A parseable record whose TTL has elapsed at instant t.
Expired(rec, t) ==
  /\ rec.kind \in {"ok", "nodata"}
  /\ t >= rec.cached_at + TtlOf(rec.url)

\* C14: expiry never deletes.  A get that finds an expired, parseable entry
\* returns None and leaves the directory unchanged; a fetch_json that finds
\* one leaves it unchanged unless its own network leg succeeds and set
\* writes the file; an expired entry is counted by stats; in any step its
\* file disappears only by clear and changes otherwise only by the write
\* of a set for the same key.
C14_ExpiryNeverDeletes ==
  [][ \A k \in Keys :
        Expired(cache_dir[k], now)
          => /\ (last'.op = "get" /\ CacheKey(last'.url) = k)
                   => last'.ret = None /\ cache_dir' = cache_dir
             /\ (last'.op = "fetch_json" /\ CacheKey(last'.url) = k
                   /\ cache_dir'[k] # cache_dir[k])
                   => NetworkSuccess(last') /\ last'.persist # ""
             /\ last'.op = "stats"
                   => /\ last'.stats.total >= 1
                      /\ cache_dir[k].endpoint \in DOMAIN last'.stats.by_endpoint
                      /\ last'.stats.by_endpoint[cache_dir[k].endpoint] >= 1
             /\ cache_dir'[k] = NoFile => last'.op = "clear"
             /\ cache_dir'[k] # cache_dir[k]
                   => \/ last'.op = "clear"
                      \/ /\ last'.op \in {"set", "fetch_json"}
                         /\ CacheKey(last'.url) = k ]_vars

\* A get has found an entry with a payload expired, returned None, and the
\* record is still in its file.
C14_Witness ==
  /\ last.op = "get"
  /\ last.ret = None
  /\ FileOf(cache_dir, last.url).kind = "ok"
  /\ FileOf(cache_dir, last.url).data = "object"
  /\ Expired(FileOf(cache_dir, last.url), now)

\* ------------------------------------------------------------ network leg
\* A fetch_json that sent at least one request and was not interrupted.
ReachedNetwork(call) ==
  call.op = "fetch_json" /\ call.attempts > 0 /\ call.raised = ""

\* C15: every fetch_json call that reaches the network makes at most
\* retry_total + 1 = 4 attempts and then ends, returning the payload of the
\* successful attempt or None.
C15_BoundedAttempts ==
  [][ ReachedNetwork(last')
        => /\ last'.attempts <= retry_total + 1
           /\ last'.attempts <= last'.server.fails + 1
           /\ \/ last'.error = "" /\ last'.ret = last'.server.body
              \/ last'.error # "" /\ last'.ret = None ]_vars

\* A call has succeeded on its last permitted attempt, after three retries.
C15_Witness ==
  /\ ReachedNetwork(last)
  /\ last.attempts = retry_total + 1
  /\ last.server.fails = retry_total
  /\ last.ret = "object"

\* The failures the retry rule names as transient: the statuses of
\* status_forcelist and a connection timeout.
NamedTransient == status_forcelist \cup {"connect_timeout"}
Min(a, b) == IF a < b THEN a ELSE b

\* C16: for every request URL, http:// and https:// alike, a failed attempt
\* is followed by another one exactly while the failure is one of the named
\* transient ones and fewer than 3 retries have been used; a success within
\* the budget makes fetch_json return the payload and write it to the cache;
\* a status outside the set ends the call after a single attempt.
C16_RetryIffTransient ==
  [][ (/\ ReachedNetwork(last')
       /\ last'.server.fails > 0 => last'.server.failure \in NamedTransient)
        => /\ last'.attempts = Min(last'.server.fails, retry_total) + 1
           /\ (last'.server.fails <= retry_total /\ last'.server.final = "200")
                 => /\ last'.ret = last'.server.body
                    /\ FileOf(cache_dir', last'.url)
                          = Written(last'.url, last'.server.body, now) ]_vars

\* The call ended on a failing attempt of the upstream's run of failures.
EndedOn(call, failure) ==
  /\ call.attempts <= call.server.fails
  /\ call.server.failure = failure
\* The call ended on the answer that follows the run of failures.
EndedOnFinal(call, final) ==
  /\ call.attempts = call.server.fails + 1
  /\ call.server.final = final

\* C17: each terminal network failure is reported with the outcome its
\* class names: retries exhausted on 429 give the rate-limit message, a
\* connect or read timeout on all attempts gives the timeout message, a
\* non-retryable status gives the HTTP-error message, a connection failure
\* gives the network-error message; the caller receives None every time.
C17_FailureOutcomes ==
  [][ (ReachedNetwork(last') /\ last'.error # "")
        => /\ last'.ret = None
           /\ EndedOn(last', "429") => last'.report = "rate_limit"
           /\ EndedOn(last', "connect_timeout") => last'.report = "timeout"
           /\ EndedOn(last', "read_timeout") => last'.report = "timeout"
           /\ EndedOnFinal(last', "404") => last'.report = "http_error"
           /\ EndedOn(last', "connection_error") => last'.report = "network_error" ]_vars

\* ------------------------------------------------------------ interrupt
\* C18: a fetch_json ended by a KeyboardInterrupt, at whatever point, hands
\* control back to its caller and leaves the file of the requested key as
\* it was before the call: its complete previous record, or absent.
C18_InterruptLeavesNoPartialWrite ==
  [][ (last'.op = "fetch_json" /\ last'.raised = "KeyboardInterrupt")
        => FileOf(cache_dir', last'.url) = FileOf(cache_dir, last'.url) ]_vars

\* ------------------------------------------------------------ category
\* The identities of the form [scheme://]host/v1/laps[?query], and the one
\* with a single path segment.
LapsForms == {UrlLaps, UrlLapsHttp, UrlLapsBare, UrlNested, UrlNestedPlain}
HasScheme(url) == StartsWith(url, HTTPS) \/ StartsWith(url, HTTP)
\* The category the rule of the specification gives.
StatedCategory(url) == IF url \in LapsForms THEN <<"laps">> ELSE <<"default">>
\* The same, for the identities that carry their scheme; without it the
\* identity has fewer than five parts.
SchemedCategory(url) ==
  IF url \in LapsForms /\ HasScheme(url) THEN <<"laps">> ELSE <<"default">>
\* The TTL of the two categories, in ticks: 1 hour and 6 hours.
TtlOfCategory(category) == IF category = <<"laps">> THEN 2 ELSE 12

StatedExportUrl(params) ==
  CASE params = <<>> -> HTTPS \o <<Host, "/", "v1", "/", "laps">>
    [] params = << <<"session_key", "9636">>, <<"driver_number", "44">> >> -> UrlLaps
    [] params = << <<"driver_number", "44">>, <<"session_key", "9636">> >> ->
         HTTPS \o <<Host, "/", "v1", "/", "laps", "?", "driver_number=44&session_key=9636">>

\* C20 as stated: export_data issues one non-bypass fetch for the stated
\* identity, writes the output file if and only if the fetch returned
\* non-empty data, and for format json the file holds the fetched payload.
C20_AsStated ==
  [][ last'.op = "export_data"
        => /\ last'.url = StatedExportUrl(last'.data)
           /\ last'.looked
           /\ last'.written # Nothing <=> ~Empty(last'.ret)
           /\ (last'.format = "json" /\ last'.written # Nothing)
                 => last'.written = <<"json", last'.ret>> ]_vars

\* C20, amended: export_data issues one non-bypass fetch for the stated
\* identity; it writes the output file only if the fetch returned non-empty
\* data, and then it does write it when the file can be opened and, for
\* format csv, the data is an array of objects; the file of format json
\* holds the fetched payload.
C20_ExportWritesFetchedData ==
  [][ last'.op = "export_data"
        => /\ last'.url = StatedExportUrl(last'.data)
           /\ last'.looked
           /\ last'.written # Nothing => ~Empty(last'.ret)
           /\ (/\ ~Empty(last'.ret) /\ last'.raised = ""
               /\ last'.out = "ok"
               /\ last'.format = "csv" => last'.ret = Records)
                 => last'.written = <<last'.format, last'.ret>>
           /\ (last'.format = "json" /\ last'.written # Nothing)
                 => last'.written = <<"json", last'.ret>> ]_vars

\* An export with parameters has written, as JSON, the array it fetched
\* from the network.
C20_Witness ==
  /\ last.op = "export_data"
  /\ last.url = UrlLaps
  /\ last.attempts = 1
  /\ last.ret = Records
  /\ last.written = <<"json", Records>>

\* ------------------------------------------------------------ csv
\* The leaves of an object: <<path, text>>, path being the keys from the
\* top down to the leaf, text the scalar or the list's elements joined
\* with ", ".
RECURSIVE Leaves(_)
Leaves(object) ==
  IF object = <<>> THEN {}
  ELSE LET key == object[1][1]
           value == object[1][2]
           here ==
             CASE value.t = "dict" -> {<< <<key>> \o p[1], p[2] >> : p \in Leaves(value.d)}
               [] value.t = "list" -> {<< <<key>>, Join(value.l, ", ") >>}
               [] value.t = "scalar" -> {<< <<key>>, value.s >>}
       IN  here \cup Leaves(Tail(object))
\* The column of a leaf: its keys joined with "_" at every depth.
ColumnOf(path) == Join(path, "_")
Columns(data) ==
  {ColumnOf(p[1]) : p \in UNION {Leaves(data[i]) : i \in 1..Len(data)}}

\* C21: export_to_csv writes one row per input record; its columns are the
\* sorted union of the flattened keys, a nested key being joined to its
\* parent key with "_" at every depth; a cell holds the text of a leaf of
\* its record with that column, and the empty string when there is none.
C21_CsvFlattening ==
  [][ (last'.op = "export_to_csv" /\ last'.data # <<>>)
        => LET data == last'.data
               header == last'.written[1]
               rows == last'.written[2]
           IN  /\ Len(rows) = Len(data)
               /\ header = sorted(Columns(data))
               /\ Len(header) = Cardinality(Columns(data))
               /\ \A i \in 1..Len(rows) :
                     /\ Len(rows[i]) = Len(header)
                     /\ \A j \in 1..Len(header) :
                           LET texts == {p[2] : p \in {q \in Leaves(data[i]) :
                                                        ColumnOf(q[1]) = header[j]}}
                           IN  IF texts = {} THEN rows[i][j] = ""
                               ELSE rows[i][j] \in texts ]_vars

\* ------------------------------------------------------------ re-fetch
\* A fetch_json that got its payload from the network although its key had
\* an entry: an expired one, or any one when the cache is bypassed.
Refetched(call) == NetworkSuccess(call) /\ call.existed

\* C22 as stated: a successful fetch over an existing entry replaces its
\* payload with the new one and sets its timestamp to the time of the
\* write; a later get returns the payload of that record while its TTL,
\* counted from the write, has not elapsed, and never another payload.
C22_AsStated ==
  [][ /\ Refetched(last')
            => FileOf(cache_dir', last'.url) = Written(last'.url, last'.got, now)
      /\ (last'.op = "get" /\ FileOf(cache_dir, last'.url).kind = "ok")
            => LET rec == FileOf(cache_dir, last'.url)
               IN  /\ last'.ret \in {None, rec.data}
                   /\ now < rec.cached_at + TtlOf(last'.url) => last'.ret = rec.data ]_vars

\* C22, amended: the same, for a successful fetch whose cache write
\* succeeds; when the write fails the old record stays (the file cannot be
\* opened) or a truncated file is left (the write stops part-way).
C22_RefetchOverwrites ==
  [][ /\ (Refetched(last') /\ last'.persist = "ok")
            => FileOf(cache_dir', last'.url) = Written(last'.url, last'.got, now)
      /\ (Refetched(last') /\ last'.persist = "open_fails")
            => FileOf(cache_dir', last'.url) = FileOf(cache_dir, last'.url)
      /\ (Refetched(last') /\ last'.persist = "write_fails")
            => FileOf(cache_dir', last'.url) = Truncated
      /\ (last'.op = "get" /\ FileOf(cache_dir, last'.url).kind = "ok")
            => LET rec == FileOf(cache_dir, last'.url)
               IN  /\ last'.ret \in {None, rec.data}
                   /\ now < rec.cached_at + TtlOf(last'.url) => last'.ret = rec.data ]_vars

\* A non-bypass fetch has found the entry of its key expired, fetched an
\* empty array and written it over the entry at the current instant.
C22_Witness ==
  /\ Refetched(last)
  /\ ~last.force
  /\ last.persist = "ok"
  /\ last.got = "empty_array"
  /\ now > 0
  /\ FileOf(cache_dir, last.url) = Written(last.url, "empty_array", now)

\* ------------------------------------------------------------ nested scheme
\* C23: key derivation removes the leading scheme prefix only, so a get or a
\* fetch answers from the cache only with an entry stored for the same
\* identity up to its leading scheme, and a set or a fetch overwrites only
\* such an entry.
C23_OnlyLeadingSchemeStripped ==
  [][ LET old == FileOf(cache_dir, last'.url)
      IN  /\ (last'.op \in {"get", "fetch_json"} /\ last'.attempts = 0
               /\ last'.ret # None)
                => Remainder(old.url) = Remainder(last'.url)
          /\ (last'.op \in {"set", "fetch_json"} /\ old.kind = "ok"
               /\ FileOf(cache_dir', last'.url) # old)
                => Remainder(old.url) = Remainder(last'.url) ]_vars
\* ------------------------------------------------------------ navigation
\* Each level that is set has the level above it set.
Hierarchy(c) ==
  /\ Truthy(c.current_driver) => Truthy(c.current_session_key)
  /\ Truthy(c.current_session_key) => Truthy(c.current_meeting_key)
  /\ Truthy(c.current_meeting_key) => TruthyInt(c.current_year)
\* The deepest level that is set: 4 the driver, 3 the session, 2 the
\* meeting, 1 the year, 0 none (the main menu).
Deepest(c) ==
  IF Truthy(c.current_driver) THEN 4
  ELSE IF Truthy(c.current_session_key) THEN 3
  ELSE IF Truthy(c.current_meeting_key) THEN 2
  ELSE IF TruthyInt(c.current_year) THEN 1
  ELSE 0
\* The step is a process_command call that took the branch h.
Handled(h) == last'.op = "process_command" /\ last'.handler \in h

\* C24: in every state the driver is set only if the session is, the session
\* only if the meeting is, and the meeting only if the year is, whatever the
\* commands were and whether their fetches succeeded or failed; and a `back`
\* clears the deepest level that is set and leaves the levels above it as
\* they were, so that each `back` goes up one level and four of them in a row
\* reach the main menu from anywhere.
C24_NavigationHierarchy ==
  /\ [](Hierarchy(ctx) /\ Deepest(ctx) \in 0..4)
  /\ [][ Handled({"back"}) =>
           /\ ctx'.current_driver =
                IF Deepest(ctx) = 4 THEN None ELSE ctx.current_driver
           /\ ctx'.current_session_key =
                IF Deepest(ctx) = 3 THEN None ELSE ctx.current_session_key
           /\ ctx'.current_meeting_key =
                IF Deepest(ctx) = 2 THEN None ELSE ctx.current_meeting_key
           /\ ctx'.current_year = IF Deepest(ctx) = 1 THEN NoYear ELSE ctx.current_year
           /\ Deepest(ctx') = IF Deepest(ctx) = 0 THEN 0 ELSE Deepest(ctx) - 1 ]_vars

\* A `back` from a selected driver whose listing of the session's drivers
\* could not be fetched: the session, the meeting and the year are still set.
C24_Witness ==
  /\ last.op = "process_command"
  /\ last.handler = "back"
  /\ last.url = UrlSessionDrivers("9636")
  /\ last.attempts > 0
  /\ last.ret = None
  /\ Deepest(ctx) = 3
  /\ ctx.current_session_key = "9636"

\* The commands the help lists as global.
GlobalCommands == {"help", "export", "cache", "refresh", "clear", "context"}

\* C25: in every navigation state, a driver selected or not, each of help,
\* export, cache, refresh, clear and context is handled by its own branch of
\* process_command; and refresh with a driver selected requests the driver
\* menu's URL with force_refresh=True, without looking in the cache.
C25_GlobalCommandsEverywhere ==
  [][ (last'.op = "process_command" /\ last'.data[1] \in GlobalCommands) =>
        /\ last'.handler = last'.data[1]
        /\ (last'.data[1] = "refresh" /\ Truthy(ctx.current_driver)) =>
             /\ last'.url = UrlDriver(ctx.current_session_key, ctx.current_driver)
             /\ last'.force
             /\ ~last'.looked ]_vars
====
